---- MODULE Spec2Model ----
(***************************************************************************)
(* Model of src/src/WorldCupTicketSimulator.jsx: the input state of the    *)
(* component, its setters, and the memoized pipeline that derives          *)
(* probabilities, stage odds, scenarios, breakeven and sensitivity data.   *)
(*                                                                         *)
(* JavaScript numbers are modelled as exact extended rationals <<n, d>>:   *)
(* d > 0 is the finite value n/d in lowest terms, <<1, 0>> is Infinity,    *)
(* <<-1, 0>> is -Infinity and <<0, 0>> is NaN.  Rounding error of doubles  *)
(* and the sign of zero are not modelled.  The Newton-Raphson solver        *)
(* calculateIRR is modelled pass by pass on decimal floating-point numbers *)
(* of SigDigits digits (see the IRR solver section); the component keeps   *)
(* the cash-flow list it hands to the solver.                              *)
(***************************************************************************)
EXTENDS Integers, Sequences, FiniteSets, TLC

\* ------------------------------------------------------------------------
\* Numbers
\* ------------------------------------------------------------------------

IAbs(i) == IF i < 0 THEN -i ELSE i

ISign(i) == IF i < 0 THEN -1 ELSE IF i > 0 THEN 1 ELSE 0

RECURSIVE GCD(_, _)
GCD(a, b) == IF b = 0 THEN a ELSE GCD(b, a % b)

Norm(n, d) ==
  IF d = 0 THEN <<ISign(n), 0>>
  ELSE LET g == GCD(IAbs(n), IAbs(d))
           s == IF d < 0 THEN -1 ELSE 1
       IN <<(s * n) \div g, (s * d) \div g>>

N(i) == <<i, 1>>
Frac(a, b) == Norm(a, b)
Infinity == <<1, 0>>
NegInfinity == <<-1, 0>>
NaN == <<0, 0>>

IsNaN(x) == x = NaN
IsFinite(x) == x[2] # 0
IsInfinite(x) == x = Infinity \/ x = NegInfinity

Neg(x) == <<-x[1], x[2]>>

Add(x, y) ==
  IF IsNaN(x) \/ IsNaN(y) THEN NaN
  ELSE IF ~IsFinite(x) /\ ~IsFinite(y) THEN (IF x = y THEN x ELSE NaN)
  ELSE IF ~IsFinite(x) THEN x
  ELSE IF ~IsFinite(y) THEN y
  ELSE LET g == GCD(x[2], y[2])
       IN Norm(x[1] * (y[2] \div g) + y[1] * (x[2] \div g), (x[2] \div g) * y[2])

Sub(x, y) == Add(x, Neg(y))

Mul(x, y) ==
  IF IsFinite(x) /\ IsFinite(y)
  THEN LET g1 == GCD(IAbs(x[1]), y[2])
           g2 == GCD(IAbs(y[1]), x[2])
       IN IF x[1] = 0 \/ y[1] = 0 THEN <<0, 1>>
          ELSE <<(x[1] \div g1) * (y[1] \div g2), (x[2] \div g2) * (y[2] \div g1)>>
  ELSE <<ISign(x[1] * y[1]), 0>>

Recip(x) == IF x[1] < 0 THEN <<-x[2], -x[1]>> ELSE <<x[2], x[1]>>

Div(x, y) == Mul(x, Recip(y))

\* JavaScript's <, >, <=, >=: every comparison with NaN is false.
Lt(x, y) ==
  IF IsNaN(x) \/ IsNaN(y) THEN FALSE
  ELSE IF IsFinite(x) /\ IsFinite(y) THEN x[1] * y[2] < y[1] * x[2]
  ELSE IF x = NegInfinity THEN y # NegInfinity
  ELSE IF x = Infinity THEN FALSE
  ELSE y = Infinity

Gt(x, y) == Lt(y, x)
Le(x, y) == ~IsNaN(x) /\ ~IsNaN(y) /\ ~Lt(y, x)
Ge(x, y) == Le(y, x)

\* Math.abs
MathAbs(x) == <<IAbs(x[1]), x[2]>>

\* Math.round: the nearest integer, halves rounded towards +Infinity.
MathRound(x) ==
  IF ~IsFinite(x) THEN x ELSE N((2 * x[1] + x[2]) \div (2 * x[2]))

\* Exact powers of two, the bases on which ** with a fractional exponent
\* has a rational value.
RECURSIVE Log2(_)
Log2(n) == IF n = 1 THEN 0 ELSE 1 + Log2(n \div 2)

RECURSIVE IsPow2(_)
IsPow2(n) == n = 1 \/ (n > 1 /\ n % 2 = 0 /\ IsPow2(n \div 2))

RECURSIVE Pow2(_)
Pow2(e) == IF e = 0 THEN 1 ELSE 2 * Pow2(e - 1)

\* base ** ex for a positive, non-integer exponent ex (every exponent the
\* program uses is a carry period over 12: 11/24, 1/8 or 1/24).  A negative
\* base gives NaN, 0 gives 0, Infinity gives Infinity.  Otherwise the value
\* is defined here only where it is rational: base = 2^e with e * ex an
\* integer; the model's opportunity-cost rates are chosen among those.
Pow(base, ex) ==
  CASE IsNaN(base) -> NaN
    [] ~IsNaN(base) /\ Lt(base, N(0)) -> NaN
    [] base = N(0) -> N(0)
    [] base = Infinity -> Infinity
    [] IsFinite(base) /\ base[1] > 0 /\ IsPow2(base[1]) /\ IsPow2(base[2])
         /\ ((Log2(base[1]) - Log2(base[2])) * ex[1]) % ex[2] = 0 ->
         LET e == ((Log2(base[1]) - Log2(base[2])) * ex[1]) \div ex[2]
         IN IF e >= 0 THEN N(Pow2(e)) ELSE <<1, Pow2(-e)>>

\* ------------------------------------------------------------------------
\* Constants of the program
\* ------------------------------------------------------------------------

STAGES == <<"Group", "R32", "R16", "QF", "SF">>
ALL_OUTCOMES == STAGES \o <<"RunnerUp", "Winner">>

StageSet == {STAGES[i] : i \in 1..Len(STAGES)}
OutcomeSet == {ALL_OUTCOMES[i] : i \in 1..Len(ALL_OUTCOMES)}

hedgeMonths == [s \in StageSet |-> IF s \in {"QF", "SF"} THEN N(5) ELSE N(4)]
proceedsMonth == Frac(11, 2)

\* ------------------------------------------------------------------------
\* Odds conversion helpers
\* ------------------------------------------------------------------------

\* americanToDecimal with the negative branch written like the positive one.
americanToDecimalSlip(am) ==
  IF Ge(am, N(100)) THEN Add(N(1), Div(am, N(100)))
  ELSE IF Le(am, N(-100)) THEN Add(N(1), Div(MathAbs(am), N(100)))
  ELSE N(1)

americanToDecimal(am) ==
  IF Ge(am, N(100)) THEN Add(N(1), Div(am, N(100)))
  ELSE IF Le(am, N(-100)) THEN Add(N(1), Div(N(100), MathAbs(am)))
  ELSE N(1)

decimalToAmerican(dec) ==
  IF Ge(dec, N(2)) THEN MathRound(Mul(Sub(dec, N(1)), N(100)))
  ELSE IF Gt(dec, N(1)) THEN MathRound(Div(N(-100), Sub(dec, N(1))))
  ELSE N(0)

\* Number(string) on the strings the model types into the inputs.
Number(str) ==
  CASE str = "" -> N(0)
    [] str = "abc" -> NaN
    [] str = "1e999" -> Infinity
    [] str = "0" -> N(0)
    [] str = "1" -> N(1)
    [] str = "2" -> N(2)
    [] str = "3" -> N(3)
    [] str = "5" -> N(5)
    [] str = "10" -> N(10)
    [] str = "40" -> N(40)
    [] str = "50" -> N(50)
    [] str = "60" -> N(60)
    [] str = "150" -> N(150)
    [] str = "-100" -> N(-100)
    [] str = "-200" -> N(-200)
    [] str = "1677721500" -> N(1677721500)

\* ------------------------------------------------------------------------
\* Derived probabilities from betting odds
\* ------------------------------------------------------------------------

RECURSIVE SumOver(_, _)
SumOver(f, keys) ==
  IF keys = <<>> THEN N(0) ELSE Add(SumOver(f, SubSeq(keys, 1, Len(keys) - 1)), f[keys[Len(keys)]])

\* OddsDataOf without the division by the total: fair = implied.
OddsDataNoDevig(bettingOdds_) ==
  LET impliedProbs == [key \in OutcomeSet |->
                         IF Gt(bettingOdds_[key], N(0))
                         THEN Mul(Div(N(1), bettingOdds_[key]), N(100))
                         ELSE N(0)]
      totalImplied == SumOver(impliedProbs, ALL_OUTCOMES)
  IN [impliedProbs |-> impliedProbs, totalImplied |-> totalImplied,
      margin |-> Sub(totalImplied, N(100)), fairProbs |-> impliedProbs]

OddsDataOf(bettingOdds_) ==
  LET impliedProbs == [key \in OutcomeSet |->
                         IF Gt(bettingOdds_[key], N(0))
                         THEN Mul(Div(N(1), bettingOdds_[key]), N(100))
                         ELSE N(0)]
      totalImplied == SumOver(impliedProbs, ALL_OUTCOMES)
      fairProbs == [key \in OutcomeSet |->
                         IF Gt(totalImplied, N(0))
                         THEN Mul(Div(impliedProbs[key], totalImplied), N(100))
                         ELSE N(0)]
  IN [impliedProbs |-> impliedProbs, totalImplied |-> totalImplied,
      margin |-> Sub(totalImplied, N(100)), fairProbs |-> fairProbs]

ElimProbsOf(oddsData_) == [s \in StageSet |-> oddsData_.fairProbs[s]]

\* StageOddsOf with cumProb never added to: the probabilities are not
\* conditioned on survival.
StageOddsUnconditional(elimProbs_, oddsData_) ==
  LET vigFactor == IF Gt(oddsData_.totalImplied, N(0))
                   THEN Div(N(100), oddsData_.totalImplied) ELSE N(1)
      entry(i) ==
        LET survivalProb == Div(Sub(N(100), N(0)), N(100))
            condProb == IF Gt(survivalProb, N(0))
                        THEN Div(Div(elimProbs_[STAGES[i]], N(100)), survivalProb)
                        ELSE N(0)
            fairOdds == IF Gt(condProb, N(0)) THEN Div(N(1), condProb) ELSE Infinity
        IN [condProb |-> condProb, fairOdds |-> fairOdds,
            adjustedOdds |-> Mul(fairOdds, vigFactor)]
  IN [s \in StageSet |-> entry(CHOOSE i \in 1..Len(STAGES) : STAGES[i] = s)]

\* Conditional probabilities and adjusted odds per stage
StageOddsOf(elimProbs_, oddsData_) ==
  LET vigFactor == IF Gt(oddsData_.totalImplied, N(0))
                   THEN Div(N(100), oddsData_.totalImplied) ELSE N(1)
      cumProb(i) == SumOver(elimProbs_, SubSeq(STAGES, 1, i - 1))
      entry(i) ==
        LET survivalProb == Div(Sub(N(100), cumProb(i)), N(100))
            condProb == IF Gt(survivalProb, N(0))
                        THEN Div(Div(elimProbs_[STAGES[i]], N(100)), survivalProb)
                        ELSE N(0)
            fairOdds == IF Gt(condProb, N(0)) THEN Div(N(1), condProb) ELSE Infinity
        IN [condProb |-> condProb, fairOdds |-> fairOdds,
            adjustedOdds |-> Mul(fairOdds, vigFactor)]
  IN [s \in StageSet |-> entry(CHOOSE i \in 1..Len(STAGES) : STAGES[i] = s)]

\* ------------------------------------------------------------------------
\* Calculated values of one render.  A render environment e is a record of
\* the input state and of the values the render has already derived.
\* ------------------------------------------------------------------------

\* x || 0 on a number: 0 and NaN are falsy.
OrZero(x) == IF IsNaN(x) \/ x = N(0) THEN N(0) ELSE x

\* (1 + annualOpportunityCost / 100) ** (period / 12) - 1
CarryFactor(annualOpportunityCost_, period) ==
  Sub(Pow(Add(N(1), Div(annualOpportunityCost_, N(100))), Div(period, N(12))), N(1))

TotalPurchaseOf(numTickets_, pricePerTicket_) == Mul(numTickets_, pricePerTicket_)

CarryingCostOf(totalPurchase_, annualOpportunityCost_) ==
  Mul(totalPurchase_, CarryFactor(annualOpportunityCost_, proceedsMonth))

\* ProbFinalsOf counting the Winner outcome only.
ProbFinalsWinnerOnly(oddsData_) == oddsData_.fairProbs["Winner"]

ProbFinalsOf(oddsData_) ==
  Add(oddsData_.fairProbs["RunnerUp"], oddsData_.fairProbs["Winner"])

\* hedgeCarryCostPerStage without its first line, the hedgeEnabled guard.
hedgeCarryCostUnguarded(e, stages) ==
  SumOver([s \in StageSet |->
             Mul(e.hedgeStakes[s],
                 CarryFactor(e.annualOpportunityCost, Sub(proceedsMonth, hedgeMonths[s])))],
          stages)

\* Carrying cost for hedge stakes, weighted by per-stage timing
hedgeCarryCostPerStage(e, stages) ==
  IF ~e.hedgeEnabled THEN N(0)
  ELSE SumOver([s \in StageSet |->
                  Mul(e.hedgeStakes[s],
                      CarryFactor(e.annualOpportunityCost, Sub(proceedsMonth, hedgeMonths[s])))],
               stages)

\* The stakes of `stages`, weighted by w, grouped by placement month:
\* outflowByMonth[m] = (outflowByMonth[m] || 0) + w * hedgeStakes[s], then
\* Object.entries, which lists the integer keys in ascending order.
RECURSIVE MonthTotal(_, _, _)
MonthTotal(contribs, m, acc) ==
  IF contribs = <<>> THEN acc
  ELSE MonthTotal(Tail(contribs), m,
                  IF Head(contribs).month = m
                  THEN Add(OrZero(acc), Head(contribs).amount) ELSE acc)

\* OutflowEntries listing the first placement month only.
OutflowEntriesFirstMonth(contribs) ==
  LET has(m) == \E i \in 1..Len(contribs) : contribs[i].month = m
      flow(m) == [month |-> m, amount |-> Neg(MonthTotal(contribs, m, N(0)))]
  IN IF has(N(4)) THEN <<flow(N(4))>> ELSE <<>>

OutflowEntries(contribs) ==
  LET has(m) == \E i \in 1..Len(contribs) : contribs[i].month = m
      flow(m) == [month |-> m, amount |-> Neg(MonthTotal(contribs, m, N(0)))]
  IN (IF has(N(4)) THEN <<flow(N(4))>> ELSE <<>>) \o
     (IF has(N(5)) THEN <<flow(N(5))>> ELSE <<>>)

StakeContribs(e, stages, w) ==
  [i \in 1..Len(stages) |->
     [month |-> hedgeMonths[stages[i]], amount |-> Mul(w, e.hedgeStakes[stages[i]])]]

\* ElimScenario with the whole payout as hedge result: the winning stake is
\* not taken off.
ElimScenarioPayout(e, i) ==
  LET elimStage == STAGES[i]
      placedStages == SubSeq(STAGES, 1, i)
      totalStakePlaced == IF e.hedgeEnabled THEN SumOver(e.hedgeStakes, placedStages) ELSE N(0)
      hCarryCost == hedgeCarryCostPerStage(e, placedStages)
      winningStake == IF e.hedgeEnabled THEN e.hedgeStakes[elimStage] ELSE N(0)
      winningOdds == e.stageOdds[elimStage].adjustedOdds
      hedgeReturn == Mul(winningStake, winningOdds)
      lostStakes == IF e.hedgeEnabled THEN SumOver(e.hedgeStakes, SubSeq(STAGES, 1, i - 1)) ELSE N(0)
      hedgeResult == IF e.hedgeEnabled
                     THEN Sub(hedgeReturn, lostStakes)
                     ELSE N(0)
      grossProceeds == Mul(e.pricePerTicket, e.numTickets)
      netPL == Add(Sub(Sub(Sub(grossProceeds, e.totalPurchase), e.carryingCost), hCarryCost),
                   hedgeResult)
      cashFlows ==
        << [month |-> N(0), amount |-> Neg(e.totalPurchase)],
           [month |-> proceedsMonth,
            amount |-> Add(grossProceeds, IF e.hedgeEnabled THEN hedgeReturn ELSE N(0))] >>
        \o (IF e.hedgeEnabled THEN OutflowEntries(StakeContribs(e, placedStages, N(1))) ELSE <<>>)
  IN [stage |-> elimStage, probability |-> e.elimProbs[elimStage], isFinals |-> FALSE,
      grossProceeds |-> grossProceeds, netProceeds |-> grossProceeds,
      resaleFee |-> N(0), processingFee |-> N(0), totalFees |-> N(0),
      hedgeResult |-> hedgeResult, hCarryCost |-> hCarryCost,
      totalStakePlaced |-> totalStakePlaced, placedStages |-> placedStages,
      netPL |-> netPL, cashFlows |-> cashFlows]

\* One elimination scenario: eliminated at STAGES[i].
ElimScenario(e, i) ==
  LET elimStage == STAGES[i]
      placedStages == SubSeq(STAGES, 1, i)
      totalStakePlaced == IF e.hedgeEnabled THEN SumOver(e.hedgeStakes, placedStages) ELSE N(0)
      hCarryCost == hedgeCarryCostPerStage(e, placedStages)
      winningStake == IF e.hedgeEnabled THEN e.hedgeStakes[elimStage] ELSE N(0)
      winningOdds == e.stageOdds[elimStage].adjustedOdds
      hedgeReturn == Mul(winningStake, winningOdds)
      lostStakes == IF e.hedgeEnabled THEN SumOver(e.hedgeStakes, SubSeq(STAGES, 1, i - 1)) ELSE N(0)
      hedgeResult == IF e.hedgeEnabled
                     THEN Sub(Mul(winningStake, Sub(winningOdds, N(1))), lostStakes)
                     ELSE N(0)
      grossProceeds == Mul(e.pricePerTicket, e.numTickets)
      netPL == Add(Sub(Sub(Sub(grossProceeds, e.totalPurchase), e.carryingCost), hCarryCost),
                   hedgeResult)
      cashFlows ==
        << [month |-> N(0), amount |-> Neg(e.totalPurchase)],
           [month |-> proceedsMonth,
            amount |-> Add(grossProceeds, IF e.hedgeEnabled THEN hedgeReturn ELSE N(0))] >>
        \o (IF e.hedgeEnabled THEN OutflowEntries(StakeContribs(e, placedStages, N(1))) ELSE <<>>)
  IN [stage |-> elimStage, probability |-> e.elimProbs[elimStage], isFinals |-> FALSE,
      grossProceeds |-> grossProceeds, netProceeds |-> grossProceeds,
      resaleFee |-> N(0), processingFee |-> N(0), totalFees |-> N(0),
      hedgeResult |-> hedgeResult, hCarryCost |-> hCarryCost,
      totalStakePlaced |-> totalStakePlaced, placedStages |-> placedStages,
      netPL |-> netPL, cashFlows |-> cashFlows]

\* Finals scenario: all hedges placed and lost
FinalsScenario(e) ==
  LET allStakes == IF e.hedgeEnabled THEN SumOver(e.hedgeStakes, STAGES) ELSE N(0)
      hCarryCostFinals == hedgeCarryCostPerStage(e, STAGES)
      hedgeResultFinals == IF e.hedgeEnabled THEN Neg(allStakes) ELSE N(0)
      grossProceeds == Mul(e.expectedResale, e.numTickets)
      resaleFee == Mul(grossProceeds, Div(e.resaleFeePercent, N(100)))
      processingFee == Mul(grossProceeds, Div(e.processingFeePercent, N(100)))
      totalFees == Add(Add(resaleFee, processingFee), e.fixedTransactionCost)
      netProceeds == Sub(grossProceeds, totalFees)
      netPLFinals == Add(Sub(Sub(Sub(netProceeds, e.totalPurchase), e.carryingCost),
                             hCarryCostFinals), hedgeResultFinals)
      cashFlowsFinals ==
        << [month |-> N(0), amount |-> Neg(e.totalPurchase)],
           [month |-> proceedsMonth, amount |-> netProceeds] >>
        \o (IF e.hedgeEnabled THEN OutflowEntries(StakeContribs(e, STAGES, N(1))) ELSE <<>>)
  IN [stage |-> "Finals", probability |-> e.probFinals, isFinals |-> TRUE,
      grossProceeds |-> grossProceeds, netProceeds |-> netProceeds,
      resaleFee |-> resaleFee, processingFee |-> processingFee, totalFees |-> totalFees,
      hedgeResult |-> hedgeResultFinals, hCarryCost |-> hCarryCostFinals,
      totalStakePlaced |-> allStakes, placedStages |-> STAGES,
      netPL |-> netPLFinals, cashFlows |-> cashFlowsFinals]

\* Build all 6 scenarios.  The source's roi field is calculateIRR(cashFlows);
\* a scenario here keeps cashFlows, the argument of that call, in its place.
ScenariosOf(e) == [i \in 1..Len(STAGES) |-> ElimScenario(e, i)] \o <<FinalsScenario(e)>>

\* ------------------------------------------------------------------------
\* Expected Value & IRR
\* ------------------------------------------------------------------------

\* scs.reduce((sum, s) => sum + (s.probability / 100) * s.netPL, 0)
RECURSIVE WeightedPL(_)
WeightedPL(scs) ==
  IF scs = <<>> THEN N(0)
  ELSE LET sc == scs[Len(scs)]
       IN Add(WeightedPL(SubSeq(scs, 1, Len(scs) - 1)),
              Mul(Div(sc.probability, N(100)), sc.netPL))

\* ExpectedValueOf over the elimination scenarios only.
ExpectedValueElimOnly(scenarios_) == WeightedPL(SubSeq(scenarios_, 1, Len(STAGES)))

ExpectedValueOf(scenarios_) == WeightedPL(scenarios_)

RECURSIVE WeightedEndInflow(_, _)
WeightedEndInflow(e, k) ==
  IF k = 0 THEN N(0)
  ELSE LET sc == e.scenarios[k]
           p == Div(sc.probability, N(100))
           winStake == IF e.hedgeEnabled THEN e.hedgeStakes[sc.stage] ELSE N(0)
           winOdds == OrZero(e.stageOdds[sc.stage].adjustedOdds)
       IN Add(WeightedEndInflow(e, k - 1),
              IF sc.isFinals THEN Mul(p, sc.netProceeds)
              ELSE Mul(p, Add(sc.grossProceeds,
                              IF e.hedgeEnabled THEN Mul(winStake, winOdds) ELSE N(0))))

\* WeightedContribs without the weights: every scenario's stakes count in full.
RECURSIVE WeightedContribsUnweighted(_, _)
WeightedContribsUnweighted(e, k) ==
  IF k = 0 THEN <<>>
  ELSE WeightedContribsUnweighted(e, k - 1) \o
       StakeContribs(e, e.scenarios[k].placedStages, N(1))

RECURSIVE WeightedContribs(_, _)
WeightedContribs(e, k) ==
  IF k = 0 THEN <<>>
  ELSE WeightedContribs(e, k - 1) \o
       StakeContribs(e, e.scenarios[k].placedStages, Div(e.scenarios[k].probability, N(100)))

\* The blended timeline.  The source's expectedROI is calculateIRR of it; the
\* model keeps the timeline, the argument of that call.
ExpectedROIOf(e) ==
  << [month |-> N(0), amount |-> Neg(e.totalPurchase)],
     [month |-> proceedsMonth, amount |-> WeightedEndInflow(e, Len(e.scenarios))] >>
  \o (IF e.hedgeEnabled THEN OutflowEntries(WeightedContribs(e, Len(e.scenarios))) ELSE <<>>)

\* BreakEvenResaleOf with the forfeited stakes added with the wrong sign.
BreakEvenResaleSignSlip(e) ==
  LET netFeeRate == Sub(Sub(N(1), Div(e.resaleFeePercent, N(100))),
                        Div(e.processingFeePercent, N(100)))
      allStakes == IF e.hedgeEnabled THEN SumOver(e.hedgeStakes, STAGES) ELSE N(0)
      hcc == hedgeCarryCostPerStage(e, STAGES)
      hedgeRes == IF e.hedgeEnabled THEN Neg(allStakes) ELSE N(0)
      targetNet == Add(Add(Add(e.totalPurchase, e.carryingCost), hcc), hedgeRes)
  IN Div(Add(targetNet, e.fixedTransactionCost), Mul(e.numTickets, netFeeRate))

\* Breakeven: resale price in finals scenario where netPL = 0
BreakEvenResaleOf(e) ==
  LET netFeeRate == Sub(Sub(N(1), Div(e.resaleFeePercent, N(100))),
                        Div(e.processingFeePercent, N(100)))
      allStakes == IF e.hedgeEnabled THEN SumOver(e.hedgeStakes, STAGES) ELSE N(0)
      hcc == hedgeCarryCostPerStage(e, STAGES)
      hedgeRes == IF e.hedgeEnabled THEN Neg(allStakes) ELSE N(0)
      targetNet == Sub(Add(Add(e.totalPurchase, e.carryingCost), hcc), hedgeRes)
  IN Div(Add(targetNet, e.fixedTransactionCost), Mul(e.numTickets, netFeeRate))

\* Sensitivity: Finals P&L vs resale price
SweepFirst == 2000
SweepLast == 30000
SweepStep == 500

\* SensitivityDataOf keeping the fees instead of the proceeds net of fees.
SensitivityDataFeesSlip(e) ==
  LET notFinals(sc) == ~sc.isFinals
      elimPL == WeightedPL(SelectSeq(e.scenarios, notFinals))
      pFinals == Div(e.probFinals, N(100))
      allStakes == IF e.hedgeEnabled THEN SumOver(e.hedgeStakes, STAGES) ELSE N(0)
      hcc == hedgeCarryCostPerStage(e, STAGES)
      hedgeRes == IF e.hedgeEnabled THEN Neg(allStakes) ELSE N(0)
      netFeeRate == Sub(Sub(N(1), Div(e.resaleFeePercent, N(100))),
                        Div(e.processingFeePercent, N(100)))
      point(price) ==
        LET gross == Mul(price, e.numTickets)
            np == Sub(Mul(gross, Sub(netFeeRate, N(1))), e.fixedTransactionCost)
            finalsPL == Add(Sub(Sub(Sub(np, e.totalPurchase), e.carryingCost), hcc), hedgeRes)
            ev == Add(Mul(pFinals, finalsPL), elimPL)
        IN [price |-> price, finals |-> finalsPL, expectedValue |-> ev]
  IN [k \in 1..((SweepLast - SweepFirst) \div SweepStep + 1) |->
        point(N(SweepFirst + SweepStep * (k - 1)))]

SensitivityDataOf(e) ==
  LET notFinals(sc) == ~sc.isFinals
      elimPL == WeightedPL(SelectSeq(e.scenarios, notFinals))
      pFinals == Div(e.probFinals, N(100))
      allStakes == IF e.hedgeEnabled THEN SumOver(e.hedgeStakes, STAGES) ELSE N(0)
      hcc == hedgeCarryCostPerStage(e, STAGES)
      hedgeRes == IF e.hedgeEnabled THEN Neg(allStakes) ELSE N(0)
      netFeeRate == Sub(Sub(N(1), Div(e.resaleFeePercent, N(100))),
                        Div(e.processingFeePercent, N(100)))
      point(price) ==
        LET gross == Mul(price, e.numTickets)
            np == Sub(Mul(gross, netFeeRate), e.fixedTransactionCost)
            finalsPL == Add(Sub(Sub(Sub(np, e.totalPurchase), e.carryingCost), hcc), hedgeRes)
            ev == Add(Mul(pFinals, finalsPL), elimPL)
        IN [price |-> price, finals |-> finalsPL, expectedValue |-> ev]
  IN [k \in 1..((SweepLast - SweepFirst) \div SweepStep + 1) |->
        point(N(SweepFirst + SweepStep * (k - 1)))]

\* ------------------------------------------------------------------------
\* State of the component
\* ------------------------------------------------------------------------

VARIABLES
  pricePerTicket, numTickets, resaleFeePercent, processingFeePercent,
  fixedTransactionCost, annualOpportunityCost, expectedResale,
  hedgeEnabled, bettingOdds, oddsFormat, hedgeStakes,   \* useState cells
  oddsData, elimProbs, stageOdds, scenarios, expectedROI,
  breakEvenResale, sensitivityData,                     \* useMemo cells
  storage,                                              \* localStorage[STORAGE_KEY]
  steps,                                                \* handler calls so far
  rejected,      \* the last handler call was an updateOdds that set nothing
  irr,           \* one call of calculateIRR: its arguments, locals and result
  conv,          \* one American odds value taken to decimal and back
  saved          \* the saved cell: what loadState returned at the mount

inputVars == <<pricePerTicket, numTickets, resaleFeePercent, processingFeePercent,
               fixedTransactionCost, annualOpportunityCost, expectedResale,
               hedgeEnabled, bettingOdds, oddsFormat, hedgeStakes>>
memoVars == <<oddsData, elimProbs, stageOdds, scenarios, expectedROI,
              breakEvenResale, sensitivityData>>
vars == <<inputVars, memoVars, storage, steps, rejected, irr, conv, saved>>

\* The input state as one record.
Inputs ==
  [pricePerTicket |-> pricePerTicket, numTickets |-> numTickets,
   resaleFeePercent |-> resaleFeePercent, processingFeePercent |-> processingFeePercent,
   fixedTransactionCost |-> fixedTransactionCost,
   annualOpportunityCost |-> annualOpportunityCost, expectedResale |-> expectedResale,
   hedgeEnabled |-> hedgeEnabled, bettingOdds |-> bettingOdds,
   oddsFormat |-> oddsFormat, hedgeStakes |-> hedgeStakes]

\* The values a render computes without memoization, added to the inputs.
Plain(in, oddsData_) ==
  LET tp == TotalPurchaseOf(in.numTickets, in.pricePerTicket)
  IN [pricePerTicket |-> in.pricePerTicket, numTickets |-> in.numTickets,
      resaleFeePercent |-> in.resaleFeePercent,
      processingFeePercent |-> in.processingFeePercent,
      fixedTransactionCost |-> in.fixedTransactionCost,
      annualOpportunityCost |-> in.annualOpportunityCost,
      expectedResale |-> in.expectedResale, hedgeEnabled |-> in.hedgeEnabled,
      bettingOdds |-> in.bettingOdds, oddsFormat |-> in.oddsFormat,
      hedgeStakes |-> in.hedgeStakes,
      totalPurchase |-> tp,
      carryingCost |-> CarryingCostOf(tp, in.annualOpportunityCost),
      probFinals |-> ProbFinalsOf(oddsData_)]

\* A render environment: the plain values and the memo cells' values.
Env(pl, elimProbs_, stageOdds_, scenarios_) ==
  [pricePerTicket |-> pl.pricePerTicket, numTickets |-> pl.numTickets,
   resaleFeePercent |-> pl.resaleFeePercent,
   processingFeePercent |-> pl.processingFeePercent,
   fixedTransactionCost |-> pl.fixedTransactionCost,
   annualOpportunityCost |-> pl.annualOpportunityCost,
   expectedResale |-> pl.expectedResale, hedgeEnabled |-> pl.hedgeEnabled,
   hedgeStakes |-> pl.hedgeStakes,
   totalPurchase |-> pl.totalPurchase, carryingCost |-> pl.carryingCost,
   probFinals |-> pl.probFinals,
   elimProbs |-> elimProbs_, stageOdds |-> stageOdds_, scenarios |-> scenarios_]

\* JSON.stringify of a number: a non-finite number is written as null.
JsonNumber(x) == IF IsFinite(x) THEN x ELSE "null"

\* The effect that persists all inputs to localStorage on change.
Persist(in) ==
  [pricePerTicket |-> JsonNumber(in.pricePerTicket), numTickets |-> JsonNumber(in.numTickets),
   resaleFeePercent |-> JsonNumber(in.resaleFeePercent),
   processingFeePercent |-> JsonNumber(in.processingFeePercent),
   fixedTransactionCost |-> JsonNumber(in.fixedTransactionCost),
   annualOpportunityCost |-> JsonNumber(in.annualOpportunityCost),
   expectedResale |-> JsonNumber(in.expectedResale), hedgeEnabled |-> in.hedgeEnabled,
   bettingOdds |-> [k \in OutcomeSet |-> JsonNumber(in.bettingOdds[k])],
   oddsFormat |-> in.oddsFormat,
   hedgeStakes |-> [k \in StageSet |-> JsonNumber(in.hedgeStakes[k])]]

\* ------------------------------------------------------------------------
\* The dependency arrays of the memo cells.  old and new are the plain
\* values of the previous and of the current render, compared as Object.is
\* compares numbers and booleans; ch tells which objects are new objects in
\* the current render (a state object that its setter replaced, a memo cell
\* that was recomputed).
\* ------------------------------------------------------------------------

OddsDataDeps(old, new, ch) == ch.bettingOdds

ElimProbsDeps(old, new, ch) == ch.oddsData

StageOddsDeps(old, new, ch) == ch.elimProbs \/ ch.oddsData

\* ScenariosDeps with expectedResale missing from the array.
ScenariosDepsNoResale(old, new, ch) ==
  \/ ch.elimProbs \/ ch.hedgeStakes \/ ch.stageOdds
  \/ old.hedgeEnabled # new.hedgeEnabled
  \/ old.pricePerTicket # new.pricePerTicket
  \/ old.numTickets # new.numTickets
  \/ old.resaleFeePercent # new.resaleFeePercent
  \/ old.processingFeePercent # new.processingFeePercent
  \/ old.fixedTransactionCost # new.fixedTransactionCost
  \/ old.totalPurchase # new.totalPurchase
  \/ old.carryingCost # new.carryingCost
  \/ old.annualOpportunityCost # new.annualOpportunityCost
  \/ old.probFinals # new.probFinals

ScenariosDeps(old, new, ch) ==
  \/ ch.elimProbs \/ ch.hedgeStakes \/ ch.stageOdds
  \/ old.hedgeEnabled # new.hedgeEnabled
  \/ old.pricePerTicket # new.pricePerTicket
  \/ old.numTickets # new.numTickets
  \/ old.expectedResale # new.expectedResale
  \/ old.resaleFeePercent # new.resaleFeePercent
  \/ old.processingFeePercent # new.processingFeePercent
  \/ old.fixedTransactionCost # new.fixedTransactionCost
  \/ old.totalPurchase # new.totalPurchase
  \/ old.carryingCost # new.carryingCost
  \/ old.annualOpportunityCost # new.annualOpportunityCost
  \/ old.probFinals # new.probFinals

ExpectedROIDeps(old, new, ch) ==
  \/ ch.scenarios \/ ch.hedgeStakes \/ ch.stageOdds
  \/ old.totalPurchase # new.totalPurchase
  \/ old.hedgeEnabled # new.hedgeEnabled

BreakEvenResaleDeps(old, new, ch) ==
  \/ ch.hedgeStakes
  \/ old.totalPurchase # new.totalPurchase
  \/ old.carryingCost # new.carryingCost
  \/ old.numTickets # new.numTickets
  \/ old.resaleFeePercent # new.resaleFeePercent
  \/ old.processingFeePercent # new.processingFeePercent
  \/ old.fixedTransactionCost # new.fixedTransactionCost
  \/ old.hedgeEnabled # new.hedgeEnabled
  \/ old.annualOpportunityCost # new.annualOpportunityCost

SensitivityDataDeps(old, new, ch) ==
  \/ ch.scenarios \/ ch.hedgeStakes
  \/ old.probFinals # new.probFinals
  \/ old.numTickets # new.numTickets
  \/ old.resaleFeePercent # new.resaleFeePercent
  \/ old.processingFeePercent # new.processingFeePercent
  \/ old.fixedTransactionCost # new.fixedTransactionCost
  \/ old.totalPurchase # new.totalPurchase
  \/ old.carryingCost # new.carryingCost
  \/ old.hedgeEnabled # new.hedgeEnabled
  \/ old.annualOpportunityCost # new.annualOpportunityCost

\* The memo cells as one record.
Memo ==
  [oddsData |-> oddsData, elimProbs |-> elimProbs, stageOdds |-> stageOdds,
   scenarios |-> scenarios, expectedROI |-> expectedROI,
   breakEvenResale |-> breakEvenResale, sensitivityData |-> sensitivityData]

\* Every derived value computed from the inputs alone, as the first render
\* computes them: one operator per useMemo, in the order of the source, each
\* handing its value on to the next.
FreshRest(pl, od, ep, so, sc) ==
  [oddsData |-> od, elimProbs |-> ep, stageOdds |-> so, scenarios |-> sc,
   expectedROI |-> ExpectedROIOf(Env(pl, ep, so, sc)),
   breakEvenResale |-> BreakEvenResaleOf(Env(pl, ep, so, sc)),
   sensitivityData |-> SensitivityDataOf(Env(pl, ep, so, sc))]

FreshScenarios(pl, od, ep, so) ==
  FreshRest(pl, od, ep, so, ScenariosOf(Env(pl, ep, so, <<>>)))

FreshStageOdds(in, od, ep) == FreshScenarios(Plain(in, od), od, ep, StageOddsOf(ep, od))

FreshElimProbs(in, od) == FreshStageOdds(in, od, ElimProbsOf(od))

Fresh(in) == FreshElimProbs(in, OddsDataOf(in.bettingOdds))

\* The render that follows a state change: in is the new input state, old
\* and new are the plain values of the previous and of the current render,
\* and ch tells which objects are new.  A memo cell is recomputed when one of
\* its dependencies changed, and keeps its value otherwise.
RenderRest(old, new, ch, od, ep, so, sc) ==
  [oddsData |-> od, elimProbs |-> ep, stageOdds |-> so, scenarios |-> sc,
   expectedROI |-> IF ExpectedROIDeps(old, new, ch)
                   THEN ExpectedROIOf(Env(new, ep, so, sc)) ELSE expectedROI,
   breakEvenResale |-> IF BreakEvenResaleDeps(old, new, ch)
                       THEN BreakEvenResaleOf(Env(new, ep, so, sc)) ELSE breakEvenResale,
   sensitivityData |-> IF SensitivityDataDeps(old, new, ch)
                       THEN SensitivityDataOf(Env(new, ep, so, sc)) ELSE sensitivityData]

RenderScenarios(old, new, ch, od, ep, so) ==
  RenderRest(old, new, [ch EXCEPT !.scenarios = ScenariosDeps(old, new, ch)], od, ep, so,
             IF ScenariosDeps(old, new, ch)
             THEN ScenariosOf(Env(new, ep, so, <<>>)) ELSE scenarios)

RenderStageOdds(old, in, ch, od, ep) ==
  RenderScenarios(old, Plain(in, od),
                  [ch EXCEPT !.stageOdds = StageOddsDeps(old, old, ch)], od, ep,
                  IF StageOddsDeps(old, old, ch) THEN StageOddsOf(ep, od) ELSE stageOdds)

RenderElimProbs(old, in, ch, od) ==
  RenderStageOdds(old, in, [ch EXCEPT !.elimProbs = ElimProbsDeps(old, old, ch)], od,
                  IF ElimProbsDeps(old, old, ch) THEN ElimProbsOf(od) ELSE elimProbs)

RenderOddsData(old, in, ch) ==
  RenderElimProbs(old, in, [ch EXCEPT !.oddsData = OddsDataDeps(old, old, ch)],
                  IF OddsDataDeps(old, old, ch)
                  THEN OddsDataOf(in.bettingOdds) ELSE oddsData)

\* newOdds / newStakes tell whether setBettingOdds / setHedgeStakes stored a
\* new object.
Render(in, newOdds, newStakes) ==
  RenderOddsData(Plain(Inputs, oddsData), in,
                 [bettingOdds |-> newOdds, hedgeStakes |-> newStakes,
                  oddsData |-> FALSE, elimProbs |-> FALSE, stageOdds |-> FALSE,
                  scenarios |-> FALSE])

\* ------------------------------------------------------------------------
\* Bounds of the model: what is typed into the inputs, and how many handler
\* calls a run makes.
\* ------------------------------------------------------------------------

MaxSteps == 2

PriceTyped == {"1"}
TicketsTyped == {"0", "1"}
ResaleFeeTyped == {"60"}
ProcessingFeeTyped == {"50"}
FixedCostTyped == {"0"}
OppCostTyped == {"-100", "-200", "1677721500"}
ResaleTyped == {"2"}
OddsTyped == {"abc", "50", "-200"}
StakeTyped == {"", "2"}

\* Input states the component can start from: complete persisted snapshots,
\* which loadState returns as they are.  The second odds set is a snapshot
\* whose odds are all 0.
InitOdds ==
  { [k \in OutcomeSet |->
       IF k = "Group" THEN N(50) ELSE IF k \in {"RunnerUp", "Winner"} THEN N(10) ELSE N(5)],
    [k \in OutcomeSet |-> N(0)] }

InitInputs ==
  { [pricePerTicket |-> N(3), numTickets |-> N(2), resaleFeePercent |-> N(10),
     processingFeePercent |-> N(40), fixedTransactionCost |-> N(1),
     annualOpportunityCost |-> a, expectedResale |-> N(5), hedgeEnabled |-> TRUE,
     bettingOdds |-> o, oddsFormat |-> "decimal",
     hedgeStakes |-> [k \in StageSet |-> IF k = "Group" THEN N(1) ELSE N(3)]]
    : a \in {N(0)}, o \in InitOdds }

\* ------------------------------------------------------------------------
\* Init and the handlers
\* ------------------------------------------------------------------------

SetAll(in, m) ==
  /\ pricePerTicket' = in.pricePerTicket
  /\ numTickets' = in.numTickets
  /\ resaleFeePercent' = in.resaleFeePercent
  /\ processingFeePercent' = in.processingFeePercent
  /\ fixedTransactionCost' = in.fixedTransactionCost
  /\ annualOpportunityCost' = in.annualOpportunityCost
  /\ expectedResale' = in.expectedResale
  /\ hedgeEnabled' = in.hedgeEnabled
  /\ bettingOdds' = in.bettingOdds
  /\ oddsFormat' = in.oddsFormat
  /\ hedgeStakes' = in.hedgeStakes
  /\ oddsData' = m.oddsData
  /\ elimProbs' = m.elimProbs
  /\ stageOdds' = m.stageOdds
  /\ scenarios' = m.scenarios
  /\ expectedROI' = m.expectedROI
  /\ breakEvenResale' = m.breakEvenResale
  /\ sensitivityData' = m.sensitivityData
  /\ storage' = Persist(in)

IrrIdle == [pc |-> "idle"]
ConvIdle == [pc |-> "idle"]

\* The state and memo cells of the component mounted on the input state in.
MountedCells(in) ==
    /\ pricePerTicket = in.pricePerTicket
    /\ numTickets = in.numTickets
    /\ resaleFeePercent = in.resaleFeePercent
    /\ processingFeePercent = in.processingFeePercent
    /\ fixedTransactionCost = in.fixedTransactionCost
    /\ annualOpportunityCost = in.annualOpportunityCost
    /\ expectedResale = in.expectedResale
    /\ hedgeEnabled = in.hedgeEnabled
    /\ bettingOdds = in.bettingOdds
    /\ oddsFormat = in.oddsFormat
    /\ hedgeStakes = in.hedgeStakes
    /\ \E m \in {Fresh(in)} :
          /\ oddsData = m.oddsData
          /\ elimProbs = m.elimProbs
          /\ stageOdds = m.stageOdds
          /\ scenarios = m.scenarios
          /\ expectedROI = m.expectedROI
          /\ breakEvenResale = m.breakEvenResale
          /\ sensitivityData = m.sensitivityData

\* The component mounted on in, the state loadState returned.
Mounted(in) ==
    /\ MountedCells(in)
    /\ saved = in
    /\ storage = Persist(in)
    /\ steps = 0
    /\ rejected = FALSE

Init == (\E in \in InitInputs : Mounted(in)) /\ irr = IrrIdle /\ conv = ConvIdle

\* A state change followed by the render and the persisting effect.
Commit(in, newOdds, newStakes) ==
  /\ steps < MaxSteps
  /\ steps' = steps + 1
  /\ rejected' = FALSE
  /\ SetAll(in, Render(in, newOdds, newStakes))
  /\ UNCHANGED <<irr, conv, saved>>

SetPricePerTicket(str) ==
  Commit([Inputs EXCEPT !.pricePerTicket = Number(str)], FALSE, FALSE)

SetNumTickets(str) ==
  Commit([Inputs EXCEPT !.numTickets = Number(str)], FALSE, FALSE)

SetResaleFeePercent(str) ==
  Commit([Inputs EXCEPT !.resaleFeePercent = Number(str)], FALSE, FALSE)

SetProcessingFeePercent(str) ==
  Commit([Inputs EXCEPT !.processingFeePercent = Number(str)], FALSE, FALSE)

SetFixedTransactionCost(str) ==
  Commit([Inputs EXCEPT !.fixedTransactionCost = Number(str)], FALSE, FALSE)

SetAnnualOpportunityCost(str) ==
  Commit([Inputs EXCEPT !.annualOpportunityCost = Number(str)], FALSE, FALSE)

SetExpectedResale(str) ==
  Commit([Inputs EXCEPT !.expectedResale = Number(str)], FALSE, FALSE)

SetHedgeEnabled(checked) ==
  Commit([Inputs EXCEPT !.hedgeEnabled = checked], FALSE, FALSE)

\* The odds table, the format toggle and the stake inputs are rendered only
\* while hedgeEnabled.
SetOddsFormat(fmt) ==
  /\ hedgeEnabled
  /\ Commit([Inputs EXCEPT !.oddsFormat = fmt], FALSE, FALSE)

DecOddsOf(fmt, displayValue) ==
  LET val == Number(displayValue)
  IN IF fmt = "american" THEN americanToDecimal(val) ELSE val

\* updateOdds testing decOdds >= 1 in place of decOdds > 1.
updateOddsAcceptsOne(key, displayValue) ==
  /\ hedgeEnabled
  /\ LET decOdds == DecOddsOf(oddsFormat, displayValue)
     IN IF Ge(decOdds, N(1))
        THEN Commit([Inputs EXCEPT !.bettingOdds[key] = decOdds], TRUE, FALSE)
        ELSE /\ steps < MaxSteps
             /\ steps' = steps + 1
             /\ rejected' = TRUE
             /\ UNCHANGED <<inputVars, memoVars, storage, irr, conv, saved>>

updateOdds(key, displayValue) ==
  /\ hedgeEnabled
  /\ LET decOdds == DecOddsOf(oddsFormat, displayValue)
     IN IF Gt(decOdds, N(1))
        THEN Commit([Inputs EXCEPT !.bettingOdds[key] = decOdds], TRUE, FALSE)
        ELSE /\ steps < MaxSteps
             /\ steps' = steps + 1
             /\ rejected' = TRUE
             /\ UNCHANGED <<inputVars, memoVars, storage, irr, conv, saved>>

getDisplayOdds(key) ==
  IF oddsFormat = "american" THEN decimalToAmerican(bettingOdds[key]) ELSE bettingOdds[key]

updateHedgeStake(stage, value) ==
  /\ hedgeEnabled
  /\ Commit([Inputs EXCEPT !.hedgeStakes[stage] = Number(value)], FALSE, TRUE)

Next ==
  \/ \E str \in PriceTyped : SetPricePerTicket(str)
  \/ \E str \in TicketsTyped : SetNumTickets(str)
  \/ \E str \in ResaleFeeTyped : SetResaleFeePercent(str)
  \/ \E str \in ProcessingFeeTyped : SetProcessingFeePercent(str)
  \/ \E str \in FixedCostTyped : SetFixedTransactionCost(str)
  \/ \E str \in OppCostTyped : SetAnnualOpportunityCost(str)
  \/ \E str \in ResaleTyped : SetExpectedResale(str)
  \/ \E checked \in BOOLEAN : SetHedgeEnabled(checked)
  \/ \E fmt \in {"decimal", "american"} : SetOddsFormat(fmt)
  \/ \E key \in OutcomeSet, str \in OddsTyped : updateOdds(key, str)
  \/ \E stage \in StageSet, str \in StakeTyped : updateHedgeStake(stage, str)

Spec == Init /\ [][Next]_vars

\* ------------------------------------------------------------------------
\* Properties
\* ------------------------------------------------------------------------

AllOddsValid(odds) == \A k \in OutcomeSet : Gt(odds[k], N(1))

\* C1: from an odds set whose decimal odds are all > 1, every handler call
\* leaves all stored odds > 1; and an updateOdds call whose value converts
\* to decimal odds that are not > 1 leaves bettingOdds unchanged.
C1_OddsStayValid ==
  [][ /\ AllOddsValid(bettingOdds) => AllOddsValid(bettingOdds')
      /\ \A key \in OutcomeSet, str \in OddsTyped :
           (~Gt(DecOddsOf(oddsFormat, str), N(1)) /\ updateOdds(key, str))
             => bettingOdds' = bettingOdds ]_vars

\* An updateOdds call was rejected in a state whose odds are all valid, in
\* the American format (where the typed values convert to the sentinel 1).
C1_Witness == rejected /\ AllOddsValid(bettingOdds) /\ oddsFormat = "american"

\* C2: after any sequence of input changes every memo cell holds the value
\* computed from scratch from the current inputs alone.
C2_NoStaleMemo == Memo = Fresh(Inputs)

\* A state after two handler calls that changed the resale price and the
\* opportunity-cost rate.
C2_Witness == steps = 2 /\ expectedResale = N(2) /\ annualOpportunityCost = N(-100)

\* C3: whenever the total implied probability is > 0, the fair
\* probabilities of the seven outcomes sum to 100.
C3_FairProbsSum ==
  Gt(oddsData.totalImplied, N(0)) => SumOver(oddsData.fairProbs, ALL_OUTCOMES) = N(100)

\* An odds set with a positive total in which some outcome has no implied
\* probability and another was set through updateOdds.
C3_Witness ==
  /\ Gt(oddsData.totalImplied, N(0))
  /\ \E k \in OutcomeSet : oddsData.fairProbs[k] = N(0)
  /\ steps > 0

ScenarioProbSum ==
  SumOver([i \in 1..Len(scenarios) |-> scenarios[i].probability],
          [i \in 1..Len(scenarios) |-> i])

CurEnv == Env(Plain(Inputs, oddsData), elimProbs, stageOdds, scenarios)

FinalsNetPLAt(x) == FinalsScenario([CurEnv EXCEPT !.expectedResale = x]).netPL

FeePercentSum == Add(resaleFeePercent, processingFeePercent)

\* C9 as stated: with ticket count > 0 and fee rates summing to less than
\* 100%, the finals net P&L at expectedResale = breakEvenResale is zero,
\* for any opportunity-cost rate.
C9_Original ==
  (Gt(numTickets, N(0)) /\ Lt(FeePercentSum, N(100)))
    => FinalsNetPLAt(breakEvenResale) = N(0)

\* C9 amended: the same, for finite inputs and an opportunity-cost rate of
\* at least -100%.
C9_BreakEvenZeroesNetPL ==
  ( /\ Gt(numTickets, N(0)) /\ Lt(FeePercentSum, N(100))
    /\ Ge(annualOpportunityCost, N(-100))
    /\ IsFinite(numTickets) /\ IsFinite(pricePerTicket)
    /\ IsFinite(fixedTransactionCost) /\ IsFinite(annualOpportunityCost)
    /\ IsFinite(FeePercentSum)
    /\ \A k \in StageSet : IsFinite(hedgeStakes[k]) )
    => FinalsNetPLAt(breakEvenResale) = N(0)

\* Hedging on, a carrying cost that is not zero, and a breakeven price that
\* is not the current expected resale price.
C9_Witness ==
  /\ Gt(numTickets, N(0)) /\ Lt(FeePercentSum, N(100))
  /\ hedgeEnabled /\ steps > 0
  /\ annualOpportunityCost = N(1677721500)
  /\ IsFinite(breakEvenResale) /\ breakEvenResale # expectedResale

\* C10: when the fee rates sum to 100% or more, the breakeven is reported
\* as undefined: it is never an infinite or a negative number.
C10_UndefinedBreakEven ==
  Ge(FeePercentSum, N(100)) =>
    (~IsInfinite(breakEvenResale) /\ ~Lt(breakEvenResale, N(0)))

\* The two entries of a timeline without hedge: the purchase outflow at
\* month 0 and an inflow at the sale month.
UnhedgedTimeline(cashFlows, inflow) ==
  cashFlows = << [month |-> N(0), amount |-> Neg(Mul(numTickets, pricePerTicket))],
                 [month |-> proceedsMonth, amount |-> inflow] >>

\* C11: with hedgeEnabled = false every scenario has hedge result 0, hedge
\* carrying cost 0 and total stake placed 0, its timeline is the purchase
\* outflow and the sale-month inflow without hedge payout, the blended
\* timeline has no hedge outflow, and each elimination scenario's net P&L is
\* minus the base carrying cost.
C11_HedgeDisabledZeroes ==
  ~hedgeEnabled =>
    /\ \A i \in 1..Len(scenarios) :
          /\ scenarios[i].hedgeResult = N(0)
          /\ scenarios[i].hCarryCost = N(0)
          /\ scenarios[i].totalStakePlaced = N(0)
          /\ UnhedgedTimeline(scenarios[i].cashFlows, scenarios[i].netProceeds)
          /\ ~scenarios[i].isFinals =>
                /\ scenarios[i].netProceeds = Mul(pricePerTicket, numTickets)
                /\ scenarios[i].netPL = Neg(CurEnv.carryingCost)
    /\ Len(expectedROI) = 2
    /\ \A j \in 1..Len(expectedROI) : expectedROI[j].month \in {N(0), proceedsMonth}

\* Hedging was switched off while the stakes are positive, the conditional
\* odds of every stage are infinite and the opportunity-cost rate is not 0.
C11_Witness ==
  /\ ~hedgeEnabled
  /\ \A s \in StageSet : Gt(hedgeStakes[s], N(0)) /\ stageOdds[s].adjustedOdds = Infinity
  /\ annualOpportunityCost = N(-100)

\* The finals values of consecutive sweep points never decrease.
FinalsNonDecreasing ==
  \A k \in 1..(Len(sensitivityData) - 1) :
    Le(sensitivityData[k].finals, sensitivityData[k + 1].finals)

\* C12 as stated: for any fee rates, ticket count, fixed cost and stakes the
\* finals P&L of sensitivityData is non-decreasing in the resale price.
C12_Original == FinalsNonDecreasing

\* C12 amended: the same, when the fee rates sum to at most 100%, the ticket
\* count is not negative, the inputs are finite and the opportunity-cost rate
\* is at least -100%.
C12_SweepMonotone ==
  ( /\ Le(FeePercentSum, N(100)) /\ Ge(numTickets, N(0))
    /\ Ge(annualOpportunityCost, N(-100))
    /\ IsFinite(numTickets) /\ IsFinite(pricePerTicket)
    /\ IsFinite(fixedTransactionCost) /\ IsFinite(annualOpportunityCost)
    /\ IsFinite(FeePercentSum)
    /\ \A k \in StageSet : IsFinite(hedgeStakes[k]) )
    => FinalsNonDecreasing

\* After a handler call, with fees below 100% and a positive ticket count:
\* the finals P&L rises strictly from the first sweep point to the second.
C12_Witness ==
  /\ steps > 0 /\ Lt(FeePercentSum, N(100)) /\ Gt(numTickets, N(0))
  /\ Ge(annualOpportunityCost, N(-100))
  /\ Lt(sensitivityData[1].finals, sensitivityData[2].finals)

\* C14: at a stage whose conditional elimination probability is 0 the odds
\* are not a literal infinity, and the scenario of that stage has a finite
\* hedge result, net P&L and sale-month inflow.
C14_NoInfinityFromZeroProb ==
  \A i \in 1..Len(STAGES) :
    (stageOdds[STAGES[i]].condProb = N(0) /\ IsFinite(CurEnv.carryingCost)) =>
      /\ IsFinite(stageOdds[STAGES[i]].fairOdds)
      /\ IsFinite(stageOdds[STAGES[i]].adjustedOdds)
      /\ IsFinite(scenarios[i].hedgeResult)
      /\ IsFinite(scenarios[i].netPL)
      /\ IsFinite(scenarios[i].cashFlows[2].amount)

\* The stakes placed before STAGES[i], and the carrying cost of the stakes
\* placed up to STAGES[i], from the current inputs.
EarlierStakes(i) == SumOver(hedgeStakes, SubSeq(STAGES, 1, i - 1))

HedgeCarryUpTo(i) ==
  SumOver([s \in StageSet |->
             Mul(hedgeStakes[s],
                 CarryFactor(annualOpportunityCost, Sub(proceedsMonth, hedgeMonths[s])))],
          SubSeq(STAGES, 1, i))

ElimNetPL(i, hedgeResult) ==
  Add(Sub(Sub(Sub(Mul(pricePerTicket, numTickets), Mul(numTickets, pricePerTicket)),
              CurEnv.carryingCost),
          HedgeCarryUpTo(i)),
      hedgeResult)

\* C15 as stated: with hedging enabled, the hedge result of elimination at
\* stage k is the payout stake_k x adjustedOdds_k minus the stakes of the
\* stages before k, and net P&L is reimbursement - purchase - base carrying
\* cost - hedge carrying cost of stages 1..k + that hedge result.
C15_Original ==
  hedgeEnabled =>
    \A i \in 1..Len(STAGES) :
      /\ scenarios[i].hedgeResult =
           Sub(Mul(hedgeStakes[STAGES[i]], stageOdds[STAGES[i]].adjustedOdds),
               EarlierStakes(i))
      /\ scenarios[i].netPL = ElimNetPL(i, scenarios[i].hedgeResult)

\* C15 amended: the hedge result is the winning bet's profit
\* stake_k x (adjustedOdds_k - 1) minus the stakes of the stages before k,
\* that is the payout minus every stake placed up to and including k; stakes
\* of later stages appear nowhere, and net P&L is reimbursement - purchase -
\* base carrying cost - hedge carrying cost of stages 1..k + that result.
C15_HedgeResult ==
  hedgeEnabled =>
    \A i \in 1..Len(STAGES) :
      /\ scenarios[i].hedgeResult =
           Sub(Mul(hedgeStakes[STAGES[i]],
                   Sub(stageOdds[STAGES[i]].adjustedOdds, N(1))),
               EarlierStakes(i))
      /\ scenarios[i].placedStages = SubSeq(STAGES, 1, i)
      /\ scenarios[i].totalStakePlaced = Add(EarlierStakes(i), hedgeStakes[STAGES[i]])
      /\ scenarios[i].hCarryCost = HedgeCarryUpTo(i)
      /\ scenarios[i].netPL = ElimNetPL(i, scenarios[i].hedgeResult)

\* Finite odds, positive stakes at every stage and a non-zero rate, after a
\* stake was retyped.
C15_Witness ==
  /\ hedgeEnabled
  /\ steps > 0
  /\ \A s \in StageSet : Gt(hedgeStakes[s], N(0)) /\ IsFinite(stageOdds[s].adjustedOdds)
  /\ hedgeStakes["R16"] = N(2)
  /\ annualOpportunityCost = N(-100)
  /\ IsFinite(scenarios[3].netPL)

CondProbAt(i) == stageOdds[STAGES[i]].condProb

\* C16 as stated: for every valid odds set the conditional elimination
\* probabilities are non-negative and strictly increase from each stage to
\* the next.
C16_Original ==
  AllOddsValid(bettingOdds) =>
    /\ \A i \in 1..Len(STAGES) : Ge(CondProbAt(i), N(0))
    /\ \A i \in 1..(Len(STAGES) - 1) : Gt(CondProbAt(i + 1), CondProbAt(i))

\* C16 amended: for every valid odds set the conditional elimination
\* probabilities are positive and below 1, and from a stage to the next one
\* the probability increases whenever the next stage's decimal odds are not
\* longer than the stage's own.
C16_CondProbOrder ==
  AllOddsValid(bettingOdds) =>
    /\ \A i \in 1..Len(STAGES) : Gt(CondProbAt(i), N(0)) /\ Lt(CondProbAt(i), N(1))
    /\ \A i \in 1..(Len(STAGES) - 1) :
         Le(bettingOdds[STAGES[i + 1]], bettingOdds[STAGES[i]])
           => Gt(CondProbAt(i + 1), CondProbAt(i))

\* Short odds typed for the round of 32: the probability rises from the
\* group stage to it and falls after it.
C16_Witness ==
  /\ steps > 0
  /\ AllOddsValid(bettingOdds)
  /\ bettingOdds["R32"] = Frac(3, 2)
  /\ Gt(CondProbAt(2), CondProbAt(1))
  /\ Lt(CondProbAt(3), CondProbAt(2))

\* The amount a timeline has at hedge month m: its outflow entry of that
\* month, 0 when it has none.
RECURSIVE OutflowAt(_, _, _)
OutflowAt(cashFlows, m, j) ==
  IF j > Len(cashFlows) THEN N(0)
  ELSE IF cashFlows[j].month = m THEN cashFlows[j].amount
  ELSE OutflowAt(cashFlows, m, j + 1)

\* Sum over the first k scenarios of p_i times x[i].
RECURSIVE ProbWeighted(_, _)
ProbWeighted(x, k) ==
  IF k = 0 THEN N(0)
  ELSE Add(ProbWeighted(x, k - 1), Mul(Div(scenarios[k].probability, N(100)), x[k]))

HedgeMonthSet == {hedgeMonths[s] : s \in StageSet}

\* C17: the blended timeline of expectedROI starts with the unweighted
\* purchase cost at month 0; its sale-month amount is the sum over the six
\* scenarios of p_i times the scenario's own sale-month inflow; its other
\* entries are one per hedge month in which some scenario places a stake, and
\* each is the sum of p_i times the scenario's outflow of that month.
C17_BlendedTimeline ==
  /\ Len(scenarios) = 6
  /\ expectedROI[1] = [month |-> N(0), amount |-> Neg(Mul(numTickets, pricePerTicket))]
  /\ expectedROI[2].month = proceedsMonth
  /\ expectedROI[2].amount =
       ProbWeighted([i \in 1..6 |-> scenarios[i].cashFlows[2].amount], 6)
  /\ \A j \in 3..Len(expectedROI) :
       /\ expectedROI[j].month \in HedgeMonthSet
       /\ expectedROI[j].amount =
            ProbWeighted([i \in 1..6 |->
                            OutflowAt(scenarios[i].cashFlows, expectedROI[j].month, 3)], 6)
       /\ \A h \in 3..Len(expectedROI) : expectedROI[h].month = expectedROI[j].month => h = j
  /\ \A m \in HedgeMonthSet :
       (\E i \in 1..6 : \E j \in 3..Len(scenarios[i].cashFlows) :
            scenarios[i].cashFlows[j].month = m)
         => \E j \in 3..Len(expectedROI) : expectedROI[j].month = m

\* Hedging on with positive stakes and finite odds after an input was typed:
\* both hedge months carry a weighted outflow.
C17_Witness ==
  /\ hedgeEnabled
  /\ steps > 0
  /\ AllOddsValid(bettingOdds)
  /\ \A s \in StageSet : Gt(hedgeStakes[s], N(0))
  /\ Len(expectedROI) = 4
  /\ Lt(expectedROI[3].amount, N(0)) /\ Lt(expectedROI[4].amount, N(0))
  /\ Gt(expectedROI[2].amount, N(0))

\* The sweep against the scenario builder, on input states drawn from bounded
\* sets: the component is mounted on each, and the expected resale price,
\* which the sweep replaces by its own prices, is retyped.
SweepInputs ==
  { [pricePerTicket |-> N(3), numTickets |-> t, resaleFeePercent |-> f[1],
     processingFeePercent |-> f[2], fixedTransactionCost |-> N(1),
     annualOpportunityCost |-> a, expectedResale |-> N(5), hedgeEnabled |-> h,
     bettingOdds |-> o, oddsFormat |-> "decimal",
     hedgeStakes |-> [k \in StageSet |-> IF k = "Group" THEN g ELSE N(3)]]
    : t \in {N(0), N(2)}, f \in {<<N(10), N(40)>>, <<N(60), N(50)>>},
      a \in {N(0), N(-100), N(-200)}, h \in BOOLEAN, o \in InitOdds,
      g \in {N(0), N(1)} }

SweepInit == (\E in \in SweepInputs : Mounted(in)) /\ irr = IrrIdle /\ conv = ConvIdle

SpecSweep == SweepInit /\ [][\E str \in ResaleTyped : SetExpectedResale(str)]_vars

\* The scenario builder run on the render environment e with
\* expectedResale = x.
ScenariosAt(e, x) == ScenariosOf([e EXCEPT !.expectedResale = x])

SweepPoint(pt, k, built) ==
  /\ pt.price = N(SweepFirst + SweepStep * (k - 1))
  /\ pt.finals = built[Len(built)].netPL
  /\ pt.expectedValue = ExpectedValueOf(built)
  /\ SubSeq(built, 1, Len(STAGES)) = SubSeq(scenarios, 1, Len(STAGES))

\* C18: the sweep has one point per price from SweepFirst to SweepLast in
\* steps of SweepStep; at each, finals is the net P&L the scenario builder
\* gives the finals scenario at expectedResale = price, expectedValue is the
\* aggregator's expected value over the scenarios built at that price, and
\* the elimination scenarios built at that price are the current ones.
C18_SweepMatchesBuilder ==
  /\ Len(sensitivityData) = (SweepLast - SweepFirst) \div SweepStep + 1
  /\ \A e \in {CurEnv} :
       \A k \in 1..Len(sensitivityData) :
         \A built \in {ScenariosAt(e, sensitivityData[k].price)} :
           SweepPoint(sensitivityData[k], k, built)

\* Finite figures with a non-zero fixed cost and positive probability of the
\* finals, after an input was typed: the expected value moves with the price.
C18_Witness ==
  /\ steps > 0
  /\ expectedResale = N(2)
  /\ AllOddsValid(bettingOdds)
  /\ Gt(fixedTransactionCost, N(0))
  /\ hedgeEnabled
  /\ IsFinite(sensitivityData[1].expectedValue)
  /\ Lt(sensitivityData[1].expectedValue, sensitivityData[57].expectedValue)
  /\ sensitivityData[57].price = N(SweepLast)

\* The undiscounted sum of the amounts of a timeline.
RECURSIVE TimelineSum(_)
TimelineSum(cashFlows) ==
  IF cashFlows = <<>> THEN N(0)
  ELSE Add(cashFlows[1].amount, TimelineSum(Tail(cashFlows)))

PLPlusCarry(sc, carryingCost_) == Add(Add(sc.netPL, carryingCost_), sc.hCarryCost)

\* C19 as stated: in each of the six scenarios the undiscounted sum of the
\* timeline amounts equals net P&L + base carrying cost + hedge carrying cost.
C19_Original ==
  \A e \in {CurEnv} :
    \A i \in 1..Len(scenarios) :
      TimelineSum(scenarios[i].cashFlows) = PLPlusCarry(scenarios[i], e.carryingCost)

\* C19 amended: the same equality, for hedging enabled or disabled, in every
\* scenario whose carrying costs are finite and whose net P&L is a number.
C19_TimelineMatchesPL ==
  \A e \in {CurEnv} :
    \A i \in 1..Len(scenarios) :
      ( /\ IsFinite(e.carryingCost)
        /\ IsFinite(scenarios[i].hCarryCost)
        /\ ~IsNaN(scenarios[i].netPL) )
        => TimelineSum(scenarios[i].cashFlows) = PLPlusCarry(scenarios[i], e.carryingCost)

\* Hedging on with positive stakes, finite odds and non-zero carrying costs.
C19_Witness ==
  /\ hedgeEnabled
  /\ steps > 0
  /\ AllOddsValid(bettingOdds)
  /\ \A s \in StageSet : Gt(hedgeStakes[s], N(0))
  /\ annualOpportunityCost = N(-100)
  /\ Len(scenarios[6].cashFlows) = 4
  /\ \A i \in 1..6 : IsFinite(scenarios[i].netPL) /\ Lt(scenarios[i].hCarryCost, N(0))

\* ------------------------------------------------------------------------
\* IRR solver.  calculateIRR iterates on doubles; here a double is a decimal
\* floating-point number <<m, e>> standing for m * 10^e, with SigDigits
\* significant digits (m = 0, or MantLo <= |m| < MantHi) and exponents up to
\* MaxExp.  Every operation truncates to SigDigits digits, overflows to
\* +-Infinity and underflows to 0.  <<1, InfExp>> and <<-1, InfExp>> are the
\* infinities and <<0, InfExp>> is NaN.  The operators bind their operands before
\* they compute, so that each operand is evaluated once.
\* ------------------------------------------------------------------------

SigDigits == 4
MaxExp == 40

RECURSIVE Pow10(_)
Pow10(k) == IF k = 0 THEN 1 ELSE 10 * Pow10(k - 1)

MantHi == Pow10(SigDigits)
MantLo == Pow10(SigDigits - 1)
InfExp == MaxExp + 1

FInf == <<1, InfExp>>
FNaN == <<0, InfExp>>
FZero == <<0, 0>>

IsFNaN(x) == x = FNaN
IsFInf(x) == x[2] = InfExp /\ x[1] # 0
IsFZero(x) == x = FZero

\* Division of integers that truncates towards zero.
TruncDiv(a, b) == ISign(a) * ISign(b) * (IAbs(a) \div IAbs(b))

RECURSIVE FNorm(_, _)
FNorm(m, e) ==
  IF m = 0 THEN FZero
  ELSE IF IAbs(m) >= MantHi
       THEN CHOOSE v \in {FNorm(a, e + 1) : a \in {TruncDiv(m, 10)}} : TRUE
  ELSE IF IAbs(m) < MantLo THEN FNorm(m * 10, e - 1)
  ELSE IF e > MaxExp THEN <<ISign(m), InfExp>>
  ELSE IF e < -MaxExp THEN FZero
  ELSE <<m, e>>

F(i) == FNorm(i, 0)

FNeg(x) == <<-x[1], x[2]>>

FAddOf(x, y) ==
  IF IsFNaN(x) \/ IsFNaN(y) THEN FNaN
  ELSE IF IsFInf(x) /\ IsFInf(y) THEN (IF x = y THEN x ELSE FNaN)
  ELSE IF IsFInf(x) \/ IsFZero(y) THEN x
  ELSE IF IsFInf(y) \/ IsFZero(x) THEN y
  ELSE LET hi == IF x[2] >= y[2] THEN x ELSE y
           lo == IF x[2] >= y[2] THEN y ELSE x
           d == hi[2] - lo[2]
       IN IF d > SigDigits + 2 THEN hi
          ELSE FNorm(hi[1] * 100 + TruncDiv(lo[1] * 100, Pow10(d)), hi[2] - 2)

FAdd(x, y) == CHOOSE v \in {FAddOf(a, b) : a \in {x}, b \in {y}} : TRUE

FSub(x, y) == FAdd(x, FNeg(y))

FMulOf(x, y) ==
  IF IsFNaN(x) \/ IsFNaN(y) THEN FNaN
  ELSE IF IsFInf(x) \/ IsFInf(y)
       THEN (IF IsFZero(x) \/ IsFZero(y) THEN FNaN ELSE <<ISign(x[1]) * ISign(y[1]), InfExp>>)
  ELSE LET a == IAbs(x[1])
           b == IAbs(y[1])
       IN FNorm(ISign(x[1]) * ISign(y[1]) * (a * (b \div 100) + (a * (b % 100)) \div 100),
                x[2] + y[2] + 2)

FMul(x, y) == CHOOSE v \in {FMulOf(a, b) : a \in {x}, b \in {y}} : TRUE

\* floor(a * 10^k / b), digit by digit.
RECURSIVE DivDigits(_, _, _)
DivDigits(a, b, k) ==
  IF k = 0 THEN a \div b
  ELSE (a \div b) * Pow10(k) + DivDigits((a % b) * 10, b, k - 1)

FDivOf(x, y) ==
  IF IsFNaN(x) \/ IsFNaN(y) THEN FNaN
  ELSE IF IsFInf(x) THEN (IF IsFInf(y) THEN FNaN
                         ELSE <<ISign(x[1]) * (IF y[1] < 0 THEN -1 ELSE 1), InfExp>>)
  ELSE IF IsFInf(y) THEN FZero
  ELSE IF IsFZero(y) THEN (IF IsFZero(x) THEN FNaN ELSE <<ISign(x[1]), InfExp>>)
  ELSE FNorm(ISign(x[1]) * ISign(y[1]) * DivDigits(IAbs(x[1]), IAbs(y[1]), SigDigits),
             x[2] - y[2] - SigDigits)

FDiv(x, y) == CHOOSE v \in {FDivOf(a, b) : a \in {x}, b \in {y}} : TRUE

\* x ** n for a whole number n >= 0.
RECURSIVE FPow(_, _)
FPow(x, n) ==
  IF n = 0 THEN F(1)
  ELSE CHOOSE v \in {FMul(p, x) : p \in {FPow(x, n - 1)}} : TRUE

\* Math.abs(x) < 10^-k
AbsBelow(x, k) ==
  /\ ~IsFNaN(x) /\ ~IsFInf(x)
  /\ (IsFZero(x) \/ x[2] + SigDigits <= -k)

\* x <= -1
AtMostMinusOne(x) ==
  /\ ~IsFNaN(x)
  /\ x[1] < 0
  /\ (IsFInf(x) \/ x[2] + SigDigits - 1 >= 0)

RECURSIVE npv(_, _)
npv(cashFlows, r) ==
  IF cashFlows = <<>> THEN FZero
  ELSE LET cf == cashFlows[Len(cashFlows)]
       IN FAdd(npv(SubSeq(cashFlows, 1, Len(cashFlows) - 1), r),
               FDiv(cf.amount, FPow(FAdd(F(1), r), cf.month)))

RECURSIVE dnpv(_, _)
dnpv(cashFlows, r) ==
  IF cashFlows = <<>> THEN FZero
  ELSE LET cf == cashFlows[Len(cashFlows)]
       IN FAdd(dnpv(SubSeq(cashFlows, 1, Len(cashFlows) - 1), r),
               FDiv(FMul(F(-cf.month), cf.amount),
                    FPow(FAdd(F(1), r), cf.month + 1)))

\* The parameters' defaults and the constants of calculateIRR.
maxIter == 100
TolDigits == 8
DerivativeDigits == 14
Sentinel == F(-100)

\* ((1 + r) ** 12 - 1) * 100
Annualized(r) == FMul(FSub(FPow(FAdd(F(1), r), 12), F(1)), F(100))

\* The cash-flow lists the solver is run on: whole months, whole amounts.
Flow(m, a) == [month |-> m, amount |-> F(a)]

IrrInputs ==
  { <<Flow(0, a0)>> : a0 \in {-1000, -100} }
  \cup { <<Flow(0, a0), Flow(m, a1)>> :
            a0 \in {-1000, -100, 100}, m \in {1, 12}, a1 \in {-100, 1, 110, 1100} }
  \cup { <<Flow(0, -100), Flow(1, 200), Flow(2, -200)>>,
         <<Flow(1, -100), Flow(2, 300), Flow(3, -250)>> }

IrrInit ==
  /\ Mounted(CHOOSE in \in InitInputs : \A k \in OutcomeSet : Gt(in.bettingOdds[k], N(1)))
  /\ conv = ConvIdle
  /\ irr \in {[pc |-> "loop", cashFlows |-> cfs, r |-> FDiv(F(1), F(100)), i |-> 0,
                exit |-> "none", result |-> FZero] : cfs \in IrrInputs}

\* The values one pass of the loop computes from the current estimate.
IrrF == npv(irr.cashFlows, irr.r)
IrrDf == dnpv(irr.cashFlows, irr.r)
IrrRNew == FSub(irr.r, FDiv(IrrF, IrrDf))

\* The body of the for loop: the three ways out of it, or the next estimate.
IrrBody ==
  irr' =
    IF AbsBelow(IrrDf, DerivativeDigits)
    THEN [irr EXCEPT !.pc = "done", !.exit = "derivative",
                     !.result = Annualized(irr.r)]
    ELSE IF AbsBelow(FSub(IrrRNew, irr.r), TolDigits)
    THEN [irr EXCEPT !.pc = "done", !.exit = "tolerance", !.r = IrrRNew,
                     !.result = Annualized(IrrRNew)]
    ELSE IF AtMostMinusOne(IrrRNew)
    THEN [irr EXCEPT !.pc = "done", !.exit = "sentinel", !.r = IrrRNew,
                     !.result = Sentinel]
    ELSE [irr EXCEPT !.r = IrrRNew, !.i = irr.i + 1]

\* The loop with its condition i < maxIter left out.
IrrIterateUnbounded ==
  /\ irr.pc = "loop"
  /\ IrrBody
  /\ UNCHANGED <<inputVars, memoVars, storage, steps, rejected, conv, saved>>

\* One pass through the body of the for loop.
IrrIterate ==
  /\ irr.pc = "loop"
  /\ irr.i < maxIter
  /\ IrrBody
  /\ UNCHANGED <<inputVars, memoVars, storage, steps, rejected, conv, saved>>

\* The loop condition fails: the iterations are used up.
IrrExhausted ==
  /\ irr.pc = "loop"
  /\ irr.i >= maxIter
  /\ irr' = [irr EXCEPT !.pc = "done", !.exit = "maxIter", !.result = Annualized(irr.r)]
  /\ UNCHANGED <<inputVars, memoVars, storage, steps, rejected, conv, saved>>

IrrNext == IrrIterate \/ IrrExhausted

SpecIRR == IrrInit /\ [][IrrNext]_vars /\ WF_vars(IrrNext)

\* C6: calculateIRR on the single cash flow (0, -1000) returns the sentinel
\* -100.
C6_SingleOutflowSentinel ==
  (irr.pc = "done" /\ irr.cashFlows = <<Flow(0, -1000)>>) => irr.result = Sentinel

\* C7: when the solver stops without converging, because maxIter is used up
\* or because the derivative is negligible, it returns the sentinel -100.
C7_NonConvergenceSentinel ==
  (irr.pc = "done" /\ irr.exit \in {"maxIter", "derivative"}) => irr.result = Sentinel

\* A step that leaves the loop before the iterations are used up.
EarlyExit == irr.pc = "loop" /\ irr.i < maxIter /\ irr'.pc = "done"

\* One of the three conditions under which the loop body stops.
StopCondition ==
  \/ AbsBelow(IrrDf, DerivativeDigits)
  \/ AbsBelow(FSub(IrrRNew, irr.r), TolDigits)
  \/ AtMostMinusOne(IrrRNew)

\* C8: calculateIRR always terminates, after at most maxIter passes of the
\* loop; it leaves the loop early exactly when the step is below the
\* tolerance, the derivative is below 1e-14 in magnitude, or r <= -1.
C8_Terminates ==
  /\ [](irr.i <= maxIter)
  /\ [][(irr.pc = "loop" /\ irr.i < maxIter) => (EarlyExit <=> StopCondition)]_vars
  /\ <>(irr.pc = "done")

C8_Witness == irr.pc = "done" /\ irr.exit = "maxIter" /\ irr.i = maxIter

\* ------------------------------------------------------------------------
\* The odds conversion helpers on their own: an American value is taken to
\* decimal by americanToDecimal and back by decimalToAmerican.
\* ------------------------------------------------------------------------

MaxAmerican == 160

\* The component, mounted and left alone.
Parked == Mounted(CHOOSE in \in InitInputs : AllOddsValid(in.bettingOdds))

mainVars == <<inputVars, memoVars, storage, steps, rejected, saved>>

ConvInit ==
  /\ Parked
  /\ irr = IrrIdle
  /\ conv \in {[pc |-> "typed", am |-> N(v)] : v \in (-MaxAmerican)..MaxAmerican}

ToDecimal ==
  /\ conv.pc = "typed"
  /\ conv' = [pc |-> "decimal", am |-> conv.am, dec |-> americanToDecimal(conv.am)]
  /\ UNCHANGED <<mainVars, irr>>

ToDisplay ==
  /\ conv.pc = "decimal"
  /\ conv' = [pc |-> "display", am |-> conv.am, dec |-> conv.dec,
              back |-> decimalToAmerican(conv.dec)]
  /\ UNCHANGED <<mainVars, irr>>

ConvNext == ToDecimal \/ ToDisplay

SpecConv == ConvInit /\ [][ConvNext]_vars

ValidAmerican(am) == Ge(am, N(100)) \/ Le(am, N(-100))

WithinOne(x, y) == Le(MathAbs(Sub(x, y)), N(1))

------------------------------------------------------------------------------
\* Loading the persisted configuration.

\* The configuration of a first visit.
DEFAULTS ==
  [ pricePerTicket        |-> N(4185),
    numTickets            |-> N(2),
    resaleFeePercent      |-> N(15),
    processingFeePercent  |-> N(3),
    fixedTransactionCost  |-> N(0),
    annualOpportunityCost |-> N(6),
    expectedResale        |-> N(10000),
    hedgeEnabled          |-> TRUE,
    bettingOdds           |-> [ Group |-> N(31), R32 |-> Frac(43, 10), R16 |-> N(4),
                                QF |-> Frac(43, 10), SF |-> Frac(11, 2),
                                RunnerUp |-> N(9), Winner |-> N(9) ],
    oddsFormat            |-> "decimal",
    hedgeStakes           |-> [ Group |-> N(25), R32 |-> N(300), R16 |-> N(500),
                                QF |-> N(1200), SF |-> N(3100) ] ]

\* What localStorage.getItem can return: null, the empty string, a text that
\* JSON.parse rejects, or the text of a JSON object, kept as the object.
NoFields == [k \in {} |-> TRUE]
NullItem == [kind |-> "null", value |-> NoFields]
EmptyItem == [kind |-> "empty", value |-> NoFields]
MalformedItem == [kind |-> "malformed", value |-> NoFields]
JsonItem(obj) == [kind |-> "json", value |-> obj]

\* The truthiness test of raw, and JSON.parse with its exception.
Truthy(raw) == raw.kind \notin {"null", "empty"}
JsonParseThrows(raw) == raw.kind = "malformed"
JsonParse(raw) == raw.value

\* loadState: the shallow spread of the parsed snapshot over DEFAULTS; the
\* catch returns DEFAULTS.
loadState(raw) ==
  IF ~Truthy(raw) THEN DEFAULTS
  ELSE IF JsonParseThrows(raw) THEN DEFAULTS
  ELSE JsonParse(raw) @@ DEFAULTS

\* Snapshots a browser can hold under STORAGE_KEY: any JSON object, so any
\* subset of the fields with any values.
StoredObjects ==
  LET PriceFields ==
        {NoFields, [pricePerTicket |-> N(100)], [expectedResale |-> N(8000)]}
      ToggleFields == {NoFields, [hedgeEnabled |-> FALSE]}
      OddsFields ==
        { NoFields,
          [bettingOdds |-> [DEFAULTS.bettingOdds EXCEPT !.Group = N(21)]],
          [bettingOdds |-> [DEFAULTS.bettingOdds EXCEPT !.Winner = N(1)]],
          [bettingOdds |-> [Group |-> Frac(1, 2)]] }
      StakeFields ==
        { NoFields,
          [hedgeStakes |-> [DEFAULTS.hedgeStakes EXCEPT !.Group = N(50)]],
          [hedgeStakes |-> [Group |-> N(50)]] }
  IN  {a @@ b @@ c @@ d : a \in PriceFields, b \in ToggleFields,
                          c \in OddsFields, d \in StakeFields}
StoredItems ==
  {NullItem, EmptyItem, MalformedItem} \cup {JsonItem(obj) : obj \in StoredObjects}

NotLoaded == [pc |-> "unloaded"]

loadVars == <<inputVars, memoVars, steps, rejected, irr, conv>>

LoadInit ==
  /\ MountedCells(CHOOSE in \in InitInputs : AllOddsValid(in.bettingOdds))
  /\ steps = 0
  /\ rejected = FALSE
  /\ irr = IrrIdle
  /\ conv = ConvIdle
  /\ storage \in StoredItems
  /\ saved = NotLoaded

\* useState(loadState): the initializer runs once.
LoadState ==
  /\ saved = NotLoaded
  /\ saved' = loadState(storage)
  /\ UNCHANGED <<loadVars, storage>>

SpecLoad == LoadInit /\ [][LoadState]_vars

\* A field of the loaded state that the specification calls valid.
OddsComplete(o) == \A k \in OutcomeSet : k \in DOMAIN o /\ Gt(o[k], N(1))
StakesComplete(h) == \A k \in StageSet : k \in DOMAIN h

\* C13: loadState returns exactly DEFAULTS when the snapshot is missing or
\* malformed, and no invalid persisted field becomes part of the loaded state:
\* its bettingOdds has all seven outcomes with decimal odds above 1 and its
\* hedgeStakes has all five stages.
C13_LoadNeverMergesInvalid ==
  saved # NotLoaded =>
    /\ (~Truthy(storage) \/ JsonParseThrows(storage)) => saved = DEFAULTS
    /\ OddsComplete(saved.bettingOdds)
    /\ StakesComplete(saved.hedgeStakes)

\* The part of C13 the code keeps: a missing, empty or unparsable snapshot
\* loads DEFAULTS, and a field the snapshot lacks is the default.
C13_MissingIsDefaults ==
  saved # NotLoaded =>
    /\ (~Truthy(storage) \/ JsonParseThrows(storage)) => saved = DEFAULTS
    /\ \A k \in DOMAIN DEFAULTS :
         k \in DOMAIN saved /\ (k \notin DOMAIN storage.value => saved[k] = DEFAULTS[k])

====
